---- MODULE Spec2Model ----
(***************************************************************************)
(* Habit tracker: the SQLite store (database.py), the DBHabit operations   *)
(* (habits.py) and the streak analytics (analytics.py).                    *)
(*                                                                         *)
(* Text values are modelled by their characters:                           *)
(*   - a habit name is a sequence of one-character strings, so that        *)
(*     strip(), lower() and the SQL LOWER() are computed, not assumed;     *)
(*   - a check_of_date text "YYYY-MM-DD HH:MM:SS" is the tuple of its six  *)
(*     zero-padded numeric fields <<y, mo, d, h, mi, s>>, and the date-only*)
(*     text "YYYY-MM-DD" is the tuple <<y, mo, d>>.  Comparing the tuples  *)
(*     field by field, a proper prefix being smaller, is the comparison of *)
(*     the texts (all fields have fixed width).                            *)
(* The columns id (AUTOINCREMENT) and habit.date are written once and read *)
(* by none of the modelled operations; the position of a row in the        *)
(* sequences habit and tracker is its rowid order.                         *)
(***************************************************************************)
EXTENDS Integers, Sequences, FiniteSets, TLC

VARIABLES habit, tracker, op, result

vars == <<habit, tracker, op, result>>

-----------------------------------------------------------------------------
(* Bounds *)

\* The most rows the tracker table holds.
MaxEvents == 3

\* The most rows the tracker table holds where habits are also renamed.
MaxCrudEvents == 2

\* The most rows the tracker table holds where check-offs are repeated.
MaxRepeatEvents == 4

\* The dummy data are populated, reset, deleted and queried while the tracker
\* table holds fewer rows.
MaxPopulatedEvents == 100

-----------------------------------------------------------------------------
(* Generic helpers *)

Max(a, b) == IF a >= b THEN a ELSE b

\* All orders in which the elements of a finite set can be listed.
RECURSIVE Perms(_)
Perms(S) ==
    IF S = {} THEN {<<>>}
    ELSE UNION {{<<x>> \o p : p \in Perms(S \ {x})} : x \in S}

-----------------------------------------------------------------------------
(* Strings: str.strip(), str.lower(), SQL LOWER() *)

LowerChar(c) ==
    CASE c = "A" -> "a"
      [] c = "B" -> "b"
      [] OTHER   -> c

Lower(s) == [i \in 1..Len(s) |-> LowerChar(s[i])]

RECURSIVE LStrip(_)
LStrip(s) == IF s # <<>> /\ Head(s) = " " THEN LStrip(Tail(s)) ELSE s

RECURSIVE RStrip(_)
RStrip(s) ==
    IF s # <<>> /\ s[Len(s)] = " " THEN RStrip(SubSeq(s, 1, Len(s) - 1)) ELSE s

Strip(s) == RStrip(LStrip(s))

-----------------------------------------------------------------------------
(* Calendar arithmetic of datetime: ordinals, differences, ISO calendar *)

IsLeap(y) == y % 4 = 0 /\ (y % 100 # 0 \/ y % 400 = 0)

DaysInMonth(y, m) ==
    CASE m \in {1, 3, 5, 7, 8, 10, 12} -> 31
      [] m \in {4, 6, 9, 11}           -> 30
      [] OTHER                         -> IF IsLeap(y) THEN 29 ELSE 28

DaysBeforeYear(y) ==
    (y - 1) * 365 + ((y - 1) \div 4) - ((y - 1) \div 100) + ((y - 1) \div 400)

RECURSIVE DaysBeforeMonth(_, _)
DaysBeforeMonth(y, m) ==
    IF m = 1 THEN 0 ELSE DaysBeforeMonth(y, m - 1) + DaysInMonth(y, m - 1)

\* date.toordinal(): 0001-01-01 is day 1.
ToOrdinal(y, m, d) == DaysBeforeYear(y) + DaysBeforeMonth(y, m) + d

\* The Monday that starts ISO week 1 of year y.
IsoWeek1Monday(y) ==
    LET firstday     == ToOrdinal(y, 1, 1)
        firstweekday == (firstday + 6) % 7
        week1monday  == firstday - firstweekday
    IN  IF firstweekday > 3 THEN week1monday + 7 ELSE week1monday

\* datetime.isocalendar()[:2] of a parsed datetime: <<ISO year, ISO week>>.
IsoCalendar(dt) ==
    LET year  == dt[1]
        today == ToOrdinal(dt[1], dt[2], dt[3])
        week  == (today - IsoWeek1Monday(year)) \div 7
    IN  IF week < 0
        THEN <<year - 1, ((today - IsoWeek1Monday(year - 1)) \div 7) + 1>>
        ELSE IF week >= 52 /\ today >= IsoWeek1Monday(year + 1)
             THEN <<year + 1, 1>>
             ELSE <<year, week + 1>>

\* datetime.toordinal() and the seconds into the day of a parsed datetime.
Ordinal(dt) == ToOrdinal(dt[1], dt[2], dt[3])

SecondsOfDay(dt) == dt[4] * 3600 + dt[5] * 60 + dt[6]

\* (current - previous).days: timedelta(days, seconds) is normalised so that
\* 0 <= seconds < 86400, the days taking the carry, rounded down.
DeltaDays(current, previous) ==
    (Ordinal(current) - Ordinal(previous))
        + ((SecondsOfDay(current) - SecondsOfDay(previous)) \div 86400)

-----------------------------------------------------------------------------
(* check_of_date texts *)

\* datetime.strptime(text, "%Y-%m-%d %H:%M:%S") succeeds only on the full form.
Parses(text) == Len(text) = 6

\* datetime.strptime(text, "%Y-%m-%d") succeeds only on a date-only text that
\* names a day of the calendar.
ParsesDate(text) ==
    /\ Len(text) = 3
    /\ text[2] \in 1..12
    /\ text[3] \in 1..DaysInMonth(text[1], text[2])

\* Text comparison (SQLite BINARY collation) of two check_of_date texts.
RECURSIVE TextLess(_, _)
TextLess(a, b) ==
    IF b = <<>> THEN FALSE
    ELSE IF a = <<>> THEN TRUE
    ELSE IF Head(a) # Head(b) THEN Head(a) < Head(b)
    ELSE TextLess(Tail(a), Tail(b))

\* ORDER BY check_of_date ASC: insert one text into an ascending sequence.
RECURSIVE InsertAsc(_, _)
InsertAsc(x, s) ==
    IF s = <<>> THEN <<x>>
    ELSE IF TextLess(x, Head(s)) THEN <<x>> \o s
    ELSE <<Head(s)>> \o InsertAsc(x, Tail(s))

RECURSIVE SortAsc(_)
SortAsc(s) == IF s = <<>> THEN <<>> ELSE InsertAsc(Head(s), SortAsc(Tail(s)))

-----------------------------------------------------------------------------
(* Return values.  A Python return value is an int, a message text (an      *)
(* f-string: its template and the tuple of values substituted), a list of   *)
(* (name, streak) tuples, None, or an exception that leaves the call.       *)

IntResult(n) == [type |-> "int", int |-> n, msg |-> "", arg |-> <<>>, list |-> <<>>]

StrResult(template, values) ==
    [type |-> "str", int |-> 0, msg |-> template, arg |-> values, list |-> <<>>]

ListResult(pairs) ==
    [type |-> "list", int |-> 0, msg |-> "", arg |-> <<>>, list |-> pairs]

RaiseResult(exception) ==
    [type |-> "raise", int |-> 0, msg |-> exception, arg |-> <<>>, list |-> <<>>]

NoneResult == [type |-> "none", int |-> 0, msg |-> "", arg |-> <<>>, list |-> <<>>]

\* The text "No description".
NoDescription == <<"No description">>

-----------------------------------------------------------------------------
(* database.py: queries *)

\* SELECT name FROM habit WHERE LOWER(name) = LOWER(?), in rowid order.
MatchingNames(h_tbl, habit_name) ==
    LET Match(row) == Lower(row.name) = Lower(habit_name)
        rows == SelectSeq(h_tbl, Match)
    IN  [i \in 1..Len(rows) |-> rows[i].name]

\* Database.proof_habit
ProofHabit(h_tbl, habit_name) == Len(MatchingNames(h_tbl, habit_name)) > 0

\* SELECT name FROM habit: the set of stored names.
HabitNames(h_tbl) == {h_tbl[i].name : i \in 1..Len(h_tbl)}

\* SELECT periodicity FROM habit WHERE name = ?  (exact match), all rows found.
PeriodicityRows(h_tbl, habit_name) ==
    LET Match(row) == row.name = habit_name
        rows == SelectSeq(h_tbl, Match)
    IN  [i \in 1..Len(rows) |-> rows[i].periodicity]

\* The check-off texts of a habit in the order of their insertion.
CheckOffDatesUnsorted(t_tbl, habit_name) ==
    LET Match(row) == row.habit_name = habit_name
        rows == SelectSeq(t_tbl, Match)
    IN  [i \in 1..Len(rows) |-> rows[i].check_of_date]

\* SELECT check_of_date FROM tracker WHERE habit_name = ? ORDER BY check_of_date ASC
CheckOffDates(t_tbl, habit_name) ==
    LET Match(row) == row.habit_name = habit_name
        rows == SelectSeq(t_tbl, Match)
    IN  SortAsc([i \in 1..Len(rows) |-> rows[i].check_of_date])

\* Database.get_habit_data: the tracker rows of a habit (exact match).
GetHabitData(t_tbl, habit_name) ==
    LET Match(row) == row.habit_name = habit_name
    IN  SelectSeq(t_tbl, Match)

\* SELECT periodicity FROM habit WHERE LOWER(name) = LOWER(?), in rowid order.
MatchingPeriodicities(h_tbl, habit_name) ==
    LET Match(row) == Lower(row.name) = Lower(habit_name)
        rows == SelectSeq(h_tbl, Match)
    IN  [i \in 1..Len(rows) |-> rows[i].periodicity]

\* SQLite DATE(text) of a "YYYY-MM-DD" or "YYYY-MM-DD HH:MM:SS" text: its date.
SqlDate(text) == SubSeq(text, 1, 3)

\* The day of the week of a text's date, Monday being 0.
Weekday(text) == (Ordinal(text) + 6) % 7

\* SQLite strftime('%Y-%W', text): the calendar year and the week of that year,
\* 00..53, weeks starting on Monday and the days before the year's first Monday
\* being week 00.
SqlYearWeek(text) ==
    LET day_of_year == Ordinal(text) - ToOrdinal(text[1], 1, 1)
    IN  <<text[1], (day_of_year + 7 - Weekday(text)) \div 7>>

\* check_event_exists comparing the ISO year and week of the two dates.
CheckEventExistsIsoWeek(t_tbl, habit_name, event_date, periodicity) ==
    LET SameDate(row) == /\ row.habit_name = habit_name
                         /\ SqlDate(row.check_of_date) = SqlDate(event_date)
        SameWeek(row) == /\ row.habit_name = habit_name
                         /\ IsoCalendar(row.check_of_date) = IsoCalendar(event_date)
    IN  IF periodicity = "daily" THEN IntResult(Len(SelectSeq(t_tbl, SameDate)))
        ELSE IF periodicity = "weekly" THEN IntResult(Len(SelectSeq(t_tbl, SameWeek)))
        ELSE RaiseResult("TypeError")

\* Database.check_event_exists: the COUNT(*) the query fetches.  For another
\* periodicity no query is executed and fetchone() is None: None[0] raises.
CheckEventExists(t_tbl, habit_name, event_date, periodicity) ==
    LET SameDate(row) == /\ row.habit_name = habit_name
                         /\ SqlDate(row.check_of_date) = SqlDate(event_date)
        SameWeek(row) == /\ row.habit_name = habit_name
                         /\ SqlYearWeek(row.check_of_date) = SqlYearWeek(event_date)
    IN  IF periodicity = "daily" THEN IntResult(Len(SelectSeq(t_tbl, SameDate)))
        ELSE IF periodicity = "weekly" THEN IntResult(Len(SelectSeq(t_tbl, SameWeek)))
        ELSE RaiseResult("TypeError")

-----------------------------------------------------------------------------
(* analytics.py: calculate_streak *)

\* A daily test that lets any later day extend the run.
DailyExtendsAnyLaterDay(current_date, previous_date) ==
    DeltaDays(current_date, previous_date) >= 1

\* The daily test of one pair of parsed datetimes.
DailyExtends(current_date, previous_date) == DeltaDays(current_date, previous_date) = 1

\* A weekly test without the year-end case.
WeeklyExtendsSameYearOnly(current_date, previous_date) ==
    LET current_week  == IsoCalendar(current_date)
        previous_week == IsoCalendar(previous_date)
    IN  current_week[1] = previous_week[1] /\ current_week[2] = previous_week[2] + 1

\* The weekly test of one pair of parsed datetimes.
WeeklyExtends(current_date, previous_date) ==
    LET current_week  == IsoCalendar(current_date)
        previous_week == IsoCalendar(previous_date)
    IN  \/ current_week[1] = previous_week[1] /\ current_week[2] = previous_week[2] + 1
        \/ /\ current_week[1] = previous_week[1] + 1
           /\ previous_week[2] = 52
           /\ current_week[2] = 1

\* The loop passing over a pair of check-offs of one day (daily) or of one ISO
\* week (weekly) without closing the run.
RECURSIVE StreakLoopCollapsing(_, _, _, _, _)
StreakLoopCollapsing(check_off_dates, periodicity, i, longest_streak, current_streak) ==
    IF i > Len(check_off_dates)
    THEN IntResult(Max(longest_streak, current_streak))
    ELSE IF ~Parses(check_off_dates[i]) \/ ~Parses(check_off_dates[i - 1])
    THEN RaiseResult("ValueError")
    ELSE IF periodicity = "daily"
    THEN IF DailyExtends(check_off_dates[i], check_off_dates[i - 1])
         THEN StreakLoopCollapsing(check_off_dates, periodicity, i + 1,
                                   longest_streak, current_streak + 1)
         ELSE IF Ordinal(check_off_dates[i]) = Ordinal(check_off_dates[i - 1])
         THEN StreakLoopCollapsing(check_off_dates, periodicity, i + 1,
                                   longest_streak, current_streak)
         ELSE StreakLoopCollapsing(check_off_dates, periodicity, i + 1,
                                   Max(longest_streak, current_streak), 1)
    ELSE IF periodicity = "weekly"
    THEN IF WeeklyExtends(check_off_dates[i], check_off_dates[i - 1])
         THEN StreakLoopCollapsing(check_off_dates, periodicity, i + 1,
                                   longest_streak, current_streak + 1)
         ELSE IF IsoCalendar(check_off_dates[i]) = IsoCalendar(check_off_dates[i - 1])
         THEN StreakLoopCollapsing(check_off_dates, periodicity, i + 1,
                                   longest_streak, current_streak)
         ELSE StreakLoopCollapsing(check_off_dates, periodicity, i + 1,
                                   Max(longest_streak, current_streak), 1)
    ELSE StreakLoopCollapsing(check_off_dates, periodicity, i + 1,
                              longest_streak, current_streak)

\* The loop without the comparison after it: the run that is still open at the
\* last check-off is not counted.
RECURSIVE StreakLoopNoFinalMax(_, _, _, _, _)
StreakLoopNoFinalMax(check_off_dates, periodicity, i, longest_streak, current_streak) ==
    IF i > Len(check_off_dates)
    THEN IntResult(longest_streak)
    ELSE IF ~Parses(check_off_dates[i]) \/ ~Parses(check_off_dates[i - 1])
    THEN RaiseResult("ValueError")
    ELSE IF periodicity = "daily"
    THEN IF DailyExtends(check_off_dates[i], check_off_dates[i - 1])
         THEN StreakLoopNoFinalMax(check_off_dates, periodicity, i + 1,
                                   longest_streak, current_streak + 1)
         ELSE StreakLoopNoFinalMax(check_off_dates, periodicity, i + 1,
                                   Max(longest_streak, current_streak), 1)
    ELSE IF periodicity = "weekly"
    THEN IF WeeklyExtends(check_off_dates[i], check_off_dates[i - 1])
         THEN StreakLoopNoFinalMax(check_off_dates, periodicity, i + 1,
                                   longest_streak, current_streak + 1)
         ELSE StreakLoopNoFinalMax(check_off_dates, periodicity, i + 1,
                                   Max(longest_streak, current_streak), 1)
    ELSE StreakLoopNoFinalMax(check_off_dates, periodicity, i + 1,
                              longest_streak, current_streak)

\* The loop over range(1, len(check_off_dates)) with 1-based index i, and the
\* final comparison after it.
RECURSIVE StreakLoop(_, _, _, _, _)
StreakLoop(check_off_dates, periodicity, i, longest_streak, current_streak) ==
    IF i > Len(check_off_dates)
    THEN IntResult(Max(longest_streak, current_streak))
    ELSE IF ~Parses(check_off_dates[i]) \/ ~Parses(check_off_dates[i - 1])
    THEN RaiseResult("ValueError")
    ELSE IF periodicity = "daily"
    THEN IF DailyExtends(check_off_dates[i], check_off_dates[i - 1])
         THEN StreakLoop(check_off_dates, periodicity, i + 1,
                         longest_streak, current_streak + 1)
         ELSE StreakLoop(check_off_dates, periodicity, i + 1,
                         Max(longest_streak, current_streak), 1)
    ELSE IF periodicity = "weekly"
    THEN IF WeeklyExtends(check_off_dates[i], check_off_dates[i - 1])
         THEN StreakLoop(check_off_dates, periodicity, i + 1,
                         longest_streak, current_streak + 1)
         ELSE StreakLoop(check_off_dates, periodicity, i + 1,
                         Max(longest_streak, current_streak), 1)
    ELSE StreakLoop(check_off_dates, periodicity, i + 1, longest_streak, current_streak)

\* calculate_streak without the early return for a habit with no check-offs.
CalculateStreakNoEmptyCheck(h_tbl, t_tbl, habit_name) ==
    IF ProofHabit(h_tbl, habit_name)
    THEN LET check_off_dates == CheckOffDates(t_tbl, habit_name)
             periodicities   == PeriodicityRows(h_tbl, habit_name)
         IN  IF periodicities = <<>> THEN RaiseResult("TypeError")
             ELSE StreakLoop(check_off_dates, periodicities[1], 2, 0, 1)
    ELSE StrResult("Habit '{}' not found.", <<habit_name>>)

\* calculate_streak answering 0 for a name that matches no habit.
CalculateStreakSilentZero(h_tbl, t_tbl, habit_name) ==
    LET check_off_dates == CheckOffDates(t_tbl, habit_name)
        periodicities   == PeriodicityRows(h_tbl, habit_name)
    IN  IF check_off_dates = <<>> \/ periodicities = <<>> THEN IntResult(0)
        ELSE StreakLoop(check_off_dates, periodicities[1], 2, 0, 1)

\* Analytics.calculate_streak
CalculateStreak(h_tbl, t_tbl, habit_name) ==
    IF ProofHabit(h_tbl, habit_name)
    THEN LET check_off_dates == CheckOffDates(t_tbl, habit_name)
             periodicities   == PeriodicityRows(h_tbl, habit_name)
         IN  IF check_off_dates = <<>> THEN IntResult(0)
             ELSE IF periodicities = <<>> THEN RaiseResult("TypeError")
             ELSE StreakLoop(check_off_dates, periodicities[1], 2, 0, 1)
    ELSE StrResult("Habit '{}' not found.", <<habit_name>>)

\* Analytics.longest_streak_across, the habit names listed in the order `all_habits`.
RECURSIVE AcrossLoop(_, _, _, _, _)
AcrossLoop(h_tbl, t_tbl, all_habits, longest_streak, habits_with_longest_streak) ==
    IF all_habits = <<>> THEN ListResult(habits_with_longest_streak)
    ELSE LET habit_name == Head(all_habits)
             streak     == CalculateStreak(h_tbl, t_tbl, habit_name)
         IN  IF streak.type = "raise" THEN streak
             ELSE IF streak.type # "int" THEN RaiseResult("TypeError")
             ELSE IF streak.int > longest_streak
             THEN AcrossLoop(h_tbl, t_tbl, Tail(all_habits), streak.int,
                             <<<<habit_name, streak.int>>>>)
             ELSE IF streak.int = longest_streak
             THEN AcrossLoop(h_tbl, t_tbl, Tail(all_habits), longest_streak,
                             Append(habits_with_longest_streak, <<habit_name, streak.int>>))
             ELSE AcrossLoop(h_tbl, t_tbl, Tail(all_habits), longest_streak,
                             habits_with_longest_streak)

\* longest_streak_across with the running maximum started at 1.
LongestStreakAcrossFromOne(h_tbl, t_tbl, all_habits) ==
    AcrossLoop(h_tbl, t_tbl, all_habits, 1, <<>>)

LongestStreakAcross(h_tbl, t_tbl, all_habits) == AcrossLoop(h_tbl, t_tbl, all_habits, 0, <<>>)

-----------------------------------------------------------------------------
(* database.py: updates.  Each returns the new table(s) and the return value *)

\* Database.add_habit
AddHabit(h_tbl, name_arg, description_arg, periodicity) ==
    LET name        == Lower(Strip(name_arg))
        description == IF Strip(description_arg) = <<>> THEN NoDescription
                       ELSE description_arg
    IN  IF name = <<>>
        THEN [habit |-> h_tbl,
              result |-> StrResult("Error: Habit name cannot be empty or just whitespace.", <<>>)]
        ELSE IF Len(MatchingNames(h_tbl, name)) > 0
        THEN [habit |-> h_tbl,
              result |-> StrResult("Error: A habit with the name '{}' already exists.", <<name>>)]
        ELSE [habit |-> Append(h_tbl, [name |-> name, description |-> description,
                                       periodicity |-> periodicity]),
              result |-> StrResult("Habit '{}' added successfully.", <<name>>)]

\* Database.increment_tracker, `matched` being the row fetchone() returns.
IncrementTrackerRow(t_tbl, matched, event_date) ==
    Append(t_tbl, [check_of_date |-> event_date, habit_name |-> matched])

\* DELETE FROM tracker WHERE habit_name = ?
DeleteTrackerData(t_tbl, habit_name) ==
    LET Keep(row) == row.habit_name # habit_name
    IN  SelectSeq(t_tbl, Keep)

\* DELETE FROM habit WHERE name = ?
DeleteHabitRow(h_tbl, habit_name) ==
    LET Keep(row) == row.name # habit_name
    IN  SelectSeq(h_tbl, Keep)

\* ON DELETE CASCADE: the tracker rows whose habit row is gone go with it.
CascadeDelete(h_tbl, t_tbl) ==
    LET Keep(row) == row.habit_name \in HabitNames(h_tbl)
    IN  SelectSeq(t_tbl, Keep)

\* ON UPDATE CASCADE: the tracker rows of a renamed habit take the new name.
CascadeUpdate(t_tbl, exact_name, new_name) ==
    [i \in 1..Len(t_tbl) |->
        IF t_tbl[i].habit_name = exact_name
        THEN [t_tbl[i] EXCEPT !.habit_name = new_name]
        ELSE t_tbl[i]]

\* update_habit without the foreign key's ON UPDATE CASCADE.
UpdateHabitNoCascade(h_tbl, t_tbl, exact_name, new_name, new_description, new_periodicity) ==
    IF new_name # <<>> /\ new_name # exact_name /\ new_name \in HabitNames(h_tbl)
    THEN [habit |-> h_tbl, tracker |-> t_tbl, result |-> RaiseResult("IntegrityError")]
    ELSE LET final_name == IF new_name # <<>> THEN new_name ELSE exact_name
             Updated(row) ==
                 IF row.name # exact_name THEN row
                 ELSE [name        |-> final_name,
                       description |-> IF new_description # <<>> THEN new_description
                                       ELSE row.description,
                       periodicity |-> IF new_periodicity # "" THEN new_periodicity
                                       ELSE row.periodicity]
         IN  [habit   |-> [i \in 1..Len(h_tbl) |-> Updated(h_tbl[i])],
              tracker |-> t_tbl,
              result  |-> StrResult("Habit '{}' has been updated successfully.",
                                    <<final_name>>)]

\* update_habit whose later UPDATEs still look for the row under its old name.
UpdateHabitStaleName(h_tbl, t_tbl, exact_name, new_name, new_description, new_periodicity) ==
    IF new_name # <<>> /\ new_name # exact_name /\ new_name \in HabitNames(h_tbl)
    THEN [habit |-> h_tbl, tracker |-> t_tbl, result |-> RaiseResult("IntegrityError")]
    ELSE LET final_name == IF new_name # <<>> THEN new_name ELSE exact_name
             found      == final_name = exact_name
             Updated(row) ==
                 IF row.name # exact_name THEN row
                 ELSE [name        |-> final_name,
                       description |-> IF new_description # <<>> /\ found
                                       THEN new_description ELSE row.description,
                       periodicity |-> IF new_periodicity # "" /\ found
                                       THEN new_periodicity ELSE row.periodicity]
         IN  [habit   |-> [i \in 1..Len(h_tbl) |-> Updated(h_tbl[i])],
              tracker |-> IF new_name # <<>> THEN CascadeUpdate(t_tbl, exact_name, new_name)
                          ELSE t_tbl,
              result  |-> StrResult("Habit '{}' has been updated successfully.",
                                    <<final_name>>)]

\* Database.update_habit after its lookup, `exact_name` being the name in the
\* row fetchone() returns.  None and the empty text (both falsy) are <<>> for
\* new_name and new_description and "" for new_periodicity.  The three UPDATEs
\* run in order; the UNIQUE constraint on habit.name compares names exactly,
\* and its violation raises sqlite3.IntegrityError out of the first UPDATE.
UpdateHabit(h_tbl, t_tbl, exact_name, new_name, new_description, new_periodicity) ==
    IF new_name # <<>> /\ new_name # exact_name /\ new_name \in HabitNames(h_tbl)
    THEN [habit |-> h_tbl, tracker |-> t_tbl, result |-> RaiseResult("IntegrityError")]
    ELSE LET final_name == IF new_name # <<>> THEN new_name ELSE exact_name
             Updated(row) ==
                 IF row.name # exact_name THEN row
                 ELSE [name        |-> final_name,
                       description |-> IF new_description # <<>> THEN new_description
                                       ELSE row.description,
                       periodicity |-> IF new_periodicity # "" THEN new_periodicity
                                       ELSE row.periodicity]
         IN  [habit   |-> [i \in 1..Len(h_tbl) |-> Updated(h_tbl[i])],
              tracker |-> IF new_name # <<>> THEN CascadeUpdate(t_tbl, exact_name, new_name)
                          ELSE t_tbl,
              result  |-> StrResult("Habit '{}' has been updated successfully.",
                                    <<final_name>>)]

-----------------------------------------------------------------------------
(* population.py *)

Workout == <<"w", "o", "r", "k", "o", "u", "t">>

CarWash == <<"c", "a", "r", " ", "w", "a", "s", "h">>

Meditation == <<"m", "e", "d", "i", "t", "a", "t", "i", "o", "n">>

GroceryShop == <<"g", "r", "o", "c", "e", "r", "y", " ", "s", "h", "o", "p">>

Studying == <<"s", "t", "u", "d", "y", "i", "n", "g">>

\* The list `habits`: name, description, periodicity.
DummyHabits ==
    << <<Workout, <<"Exercise daily">>, "daily">>,
       <<CarWash, <<"Wash the car weekly">>, "weekly">>,
       <<Meditation, <<"Meditate every day">>, "daily">>,
       <<GroceryShop, <<"Shop weekly">>, "weekly">>,
       <<Studying, <<"Study 30 minutes daily">>, "daily">> >>

\* [f"2024-12-{day:02d} {hour:02d}:00:00" for day in range(1, 31) if day not in skipped]
DecemberCheckoffs(hour, skipped) ==
    LET Kept(day) == day \notin skipped
        days      == SelectSeq([day \in 1..30 |-> day], Kept)
    IN  [i \in 1..Len(days) |-> <<2024, 12, days[i], hour, 0, 0>>]

WorkoutCheckoffs == DecemberCheckoffs(7, {16, 19})

MeditationCheckoffs == DecemberCheckoffs(7, {6, 13, 19})

StudyingCheckoffs == DecemberCheckoffs(8, {15, 17, 22})

CarWashCheckoffs ==
    <<<<2024, 12, 2, 15, 0, 0>>, <<2024, 12, 9, 15, 0, 0>>, <<2024, 12, 23, 15, 0, 0>>>>

GroceryCheckoffs ==
    <<<<2024, 12, 2, 10, 0, 0>>, <<2024, 12, 9, 10, 0, 0>>, <<2024, 12, 16, 10, 0, 0>>>>

\* DBHabit(name, description, periodicity).store(db): the habit table after it.
StoredHabit(h_tbl, name_arg, description_arg, periodicity) ==
    LET self_name        == Lower(Strip(name_arg))
        self_description == Strip(description_arg)
        description      == IF Strip(self_description) = <<>> THEN NoDescription
                            ELSE self_description
    IN  IF Strip(self_name) = <<>> \/ ProofHabit(h_tbl, self_name) THEN h_tbl
        ELSE AddHabit(h_tbl, self_name, description, periodicity).habit

\* The loop that stores the dummy habits.
RECURSIVE StoreAll(_, _)
StoreAll(h_tbl, habits) ==
    IF habits = <<>> THEN h_tbl
    ELSE StoreAll(StoredHabit(h_tbl, Head(habits)[1], Head(habits)[2], Head(habits)[3]),
                  Tail(habits))

\* Population._add_checkoffs: increment_tracker for each date of the list, in
\* order, each appending one row under the name of the row its lookup finds;
\* the dummy names each match at most one stored row where names are stored by
\* store alone.
AddCheckoffs(h_tbl, t_tbl, habit_name, checkoffs) ==
    LET matches == MatchingNames(h_tbl, habit_name)
    IN  IF matches = <<>> THEN t_tbl
        ELSE t_tbl \o [i \in 1..Len(checkoffs) |->
                          IncrementTrackerRow(<<>>, matches[1], checkoffs[i])[1]]

\* Population.populate_dummy_data: the two tables after it.
PopulateDummyData(h_tbl, t_tbl) ==
    LET h  == StoreAll(h_tbl, DummyHabits)
        t1 == AddCheckoffs(h, t_tbl, Workout, WorkoutCheckoffs)
        t2 == AddCheckoffs(h, t1, Meditation, MeditationCheckoffs)
        t3 == AddCheckoffs(h, t2, Studying, StudyingCheckoffs)
        t4 == AddCheckoffs(h, t3, CarWash, CarWashCheckoffs)
        t5 == AddCheckoffs(h, t4, GroceryShop, GroceryCheckoffs)
    IN  [habit |-> h, tracker |-> t5]

-----------------------------------------------------------------------------
(* Operations *)

Call(name, habit_name) == [name |-> name, habit_name |-> habit_name]

\* A call of update: the habit's name and the three new values.
UpdateCall(habit_name, new_name, new_description, new_periodicity) ==
    [name |-> "update", habit_name |-> habit_name, new_name |-> new_name,
     new_description |-> new_description, new_periodicity |-> new_periodicity]

\* A call of add_event: the habit's name, the date argument and the clock's text.
AddEventCall(habit_name, date_arg, now) ==
    [name |-> "add_event", habit_name |-> habit_name, date |-> date_arg, now |-> now]

Init ==
    /\ habit = <<>>
    /\ tracker = <<>>
    /\ op = Call("init", <<>>)
    /\ result = NoneResult

\* store without its own test for an existing habit, leaving it to add_habit.
StoreWithoutProof(name_arg, description_arg, periodicity) ==
    LET self_name        == Lower(Strip(name_arg))
        self_description == Strip(description_arg)
    IN  /\ op' = Call("store", self_name)
        /\ IF Strip(self_name) = <<>>
           THEN /\ result' = StrResult("Habit name cannot be blank or just whitespace. It was not added.", <<>>)
                /\ UNCHANGED <<habit, tracker>>
           ELSE LET description == IF Strip(self_description) = <<>> THEN NoDescription
                                   ELSE self_description
                    added       == AddHabit(habit, self_name, description, periodicity)
                IN  /\ habit' = added.habit
                    /\ result' = added.result
                    /\ UNCHANGED tracker

\* DBHabit(name, description, periodicity).store(db)
Store(name_arg, description_arg, periodicity) ==
    LET self_name        == Lower(Strip(name_arg))
        self_description == Strip(description_arg)
    IN  /\ op' = Call("store", self_name)
        /\ IF Strip(self_name) = <<>>
           THEN /\ result' = StrResult("Habit name cannot be blank or just whitespace. It was not added.", <<>>)
                /\ UNCHANGED <<habit, tracker>>
           ELSE IF ProofHabit(habit, self_name)
           THEN /\ result' = StrResult("Habit '{}' already exists. It was not added.", <<self_name>>)
                /\ UNCHANGED <<habit, tracker>>
           ELSE LET description == IF Strip(self_description) = <<>> THEN NoDescription
                                   ELSE self_description
                    added       == AddHabit(habit, self_name, description, periodicity)
                IN  /\ habit' = added.habit
                    /\ result' = added.result
                    /\ UNCHANGED tracker

\* Database.increment_tracker(habit_name, event_date); `now` is the clock's text,
\* used when event_date is None or empty.
IncrementTracker(habit_name, event_date_arg, now) ==
    LET event_date == IF event_date_arg = <<>> THEN now ELSE event_date_arg
        matches    == MatchingNames(habit, habit_name)
    IN  /\ op' = Call("increment_tracker", habit_name)
        /\ IF matches = <<>>
           THEN /\ result' = StrResult("Habit '{}' not found. Cannot add event.", <<habit_name>>)
                /\ UNCHANGED <<habit, tracker>>
           ELSE \E i \in 1..Len(matches) :
                    /\ tracker' = IncrementTrackerRow(tracker, matches[i], event_date)
                    /\ result' = StrResult("Event for habit '{}' added on {}.",
                                          <<matches[i], event_date>>)
                    /\ UNCHANGED habit

\* DBHabit(name, ...).reset_in_db(db)
ResetInDb(name_arg) ==
    LET self_name == Lower(Strip(name_arg))
    IN  /\ op' = Call("reset_in_db", self_name)
        /\ IF ProofHabit(habit, self_name)
           THEN /\ tracker' = DeleteTrackerData(tracker, self_name)
                /\ result' = StrResult("All progress for habit '{}' has been reset.", <<self_name>>)
                /\ UNCHANGED habit
           ELSE /\ result' = StrResult("Habit '{}' not found.", <<self_name>>)
                /\ UNCHANGED <<habit, tracker>>

\* DBHabit(name, ...).delete(db)
Delete(name_arg) ==
    LET self_name == Lower(Strip(name_arg))
    IN  /\ op' = Call("delete", self_name)
        /\ IF ProofHabit(habit, self_name)
           THEN LET h_tbl == DeleteHabitRow(habit, self_name)
                IN  /\ habit' = h_tbl
                    /\ tracker' = CascadeDelete(h_tbl, DeleteTrackerData(tracker, self_name))
                    /\ result' = StrResult("The habit '{}' has been deleted.", <<self_name>>)
           ELSE /\ result' = StrResult("Habit '{}' not found or there may be a typo.", <<self_name>>)
                /\ UNCHANGED <<habit, tracker>>

\* DBHabit(name, ...).update(db, new_name, new_description, new_periodicity)
Update(name_arg, new_name, new_description, new_periodicity) ==
    LET self_name == Lower(Strip(name_arg))
        matches   == MatchingNames(habit, self_name)
    IN  /\ op' = UpdateCall(self_name, new_name, new_description, new_periodicity)
        /\ IF ~ProofHabit(habit, self_name)
           THEN /\ result' = StrResult("Habit '{}' does not exist.", <<self_name>>)
                /\ UNCHANGED <<habit, tracker>>
           ELSE \E i \in 1..Len(matches) :
                    LET updated == UpdateHabit(habit, tracker, matches[i], new_name,
                                               new_description, new_periodicity)
                    IN  /\ habit' = updated.habit
                        /\ tracker' = updated.tracker
                        /\ result' = updated.result

\* DBHabit(name, ...).add_event(db, date); `now` is the clock's text, used when
\* date is None or empty.
AddEvent(name_arg, date_arg, now) ==
    LET self_name     == Lower(Strip(name_arg))
        date          == IF date_arg = <<>> THEN now ELSE date_arg \o <<0, 0, 0>>
        matches       == MatchingNames(habit, self_name)
        periodicities == MatchingPeriodicities(habit, self_name)
    IN  /\ op' = AddEventCall(self_name, date_arg, now)
        /\ UNCHANGED habit
        /\ IF ~ProofHabit(habit, self_name)
           THEN /\ result' = StrResult("Habit '{}' not found. Cannot add event.", <<self_name>>)
                /\ UNCHANGED tracker
           ELSE IF date_arg # <<>> /\ ~ParsesDate(date_arg)
           THEN /\ result' = StrResult("Invalid date format: '{}'. Please use YYYY-MM-DD.",
                                       <<date_arg>>)
                /\ UNCHANGED tracker
           ELSE \E k \in 1..Len(periodicities) :
                    LET periodicity     == periodicities[k]
                        already_checked == CheckEventExists(tracker, self_name, date,
                                                            periodicity)
                    IN  IF periodicity = ""
                        THEN /\ result' = StrResult("Could not determine periodicity for habit '{}'.",
                                                    <<self_name>>)
                             /\ UNCHANGED tracker
                        ELSE IF already_checked.type = "raise"
                        THEN /\ result' = already_checked
                             /\ UNCHANGED tracker
                        ELSE IF already_checked.int > 0 /\ periodicity = "daily"
                        THEN /\ result' = StrResult("Habit '{}' was already checked-off on {}.",
                                                    <<self_name, SubSeq(date, 1, 3)>>)
                             /\ UNCHANGED tracker
                        ELSE IF already_checked.int > 0 /\ periodicity = "weekly"
                        THEN /\ result' = StrResult("Habit '{}' was already checked-off in this week.",
                                                    <<self_name>>)
                             /\ UNCHANGED tracker
                        ELSE \E i \in 1..Len(matches) :
                                 /\ tracker' = IncrementTrackerRow(tracker, matches[i], date)
                                 /\ result' = StrResult("Event for habit '{}' added on {}.",
                                                        <<matches[i], date>>)

\* Population(db).populate_dummy_data()
Populate ==
    LET populated == PopulateDummyData(habit, tracker)
    IN  /\ op' = Call("populate_dummy_data", <<>>)
        /\ habit' = populated.habit
        /\ tracker' = populated.tracker
        /\ result' = NoneResult

\* Database.delete_db
DeleteDb ==
    /\ op' = Call("delete_db", <<>>)
    /\ habit' = <<>>
    /\ tracker' = <<>>
    /\ result' = StrResult("All data has been successfully deleted.", <<>>)

\* calculate_streak consuming the check-offs it has counted.
CalculateStreakCallConsuming(habit_name) ==
    /\ op' = Call("calculate_streak", habit_name)
    /\ result' = CalculateStreak(habit, tracker, habit_name)
    /\ tracker' = DeleteTrackerData(tracker, habit_name)
    /\ UNCHANGED habit

\* Analytics.calculate_streak(habit_name)
CalculateStreakCall(habit_name) ==
    /\ op' = Call("calculate_streak", habit_name)
    /\ result' = CalculateStreak(habit, tracker, habit_name)
    /\ UNCHANGED <<habit, tracker>>

\* Analytics.longest_streak_across(); SELECT name FROM habit has no ORDER BY, so
\* the rows come in an order the query planner picks.
LongestStreakAcrossCall ==
    /\ op' = Call("longest_streak_across", <<>>)
    /\ \E all_habits \in Perms(HabitNames(habit)) :
           result' = LongestStreakAcross(habit, tracker, all_habits)
    /\ UNCHANGED <<habit, tracker>>

-----------------------------------------------------------------------------
(* Inputs *)

\* Names given to DBHabit(name, ...): upper case, padded, blank.
HabitNamePool == {<<"A">>, <<" ", "b">>, <<" ">>}

\* Names given to the Database and Analytics methods, which take them as they are.
NamePool == {<<"a">>, <<"A">>, <<"b">>, <<" ", "b">>}

DescriptionPool == {<<"d">>}

PeriodicityPool == {"daily", "weekly", "monthly"}

\* check_of_date texts: two consecutive days at 07:00:00 and one date-only text.
StampPool == {<<2024, 12, 1, 7, 0, 0>>, <<2024, 12, 2, 7, 0, 0>>, <<2024, 12, 2>>}

FullStamps(pool) == {t \in pool : Len(t) = 6}

Next ==
    \/ \E n \in HabitNamePool, d \in DescriptionPool, p \in PeriodicityPool : Store(n, d, p)
    \/ /\ Len(tracker) < MaxEvents
       /\ \E n \in NamePool, e \in StampPool \cup {<<>>} :
              \E now \in (IF e = <<>> THEN FullStamps(StampPool) ELSE {e}) :
                  IncrementTracker(n, e, now)
    \/ \E n \in HabitNamePool : ResetInDb(n)
    \/ \E n \in HabitNamePool : Delete(n)
    \/ DeleteDb
    \/ \E n \in NamePool : CalculateStreakCall(n)
    \/ LongestStreakAcrossCall

Spec == Init /\ [][Next]_vars

-----------------------------------------------------------------------------
(* The streak calculation on one habit, over a wider range of check-offs *)

StreakName == <<"a">>

\* Four consecutive days at 07:00:00 across a month end; check-offs late and
\* early in the day; Mondays of ISO weeks 2020-W52, 2020-W53, 2021-W01 and of
\* 2024-W51, 2024-W52, 2025-W01; one date-only text.
StreakStampPool ==
    {<<2024, 11, 30, 7, 0, 0>>, <<2024, 12, 1, 7, 0, 0>>, <<2024, 12, 2, 7, 0, 0>>,
     <<2024, 12, 3, 7, 0, 0>>,
     <<2024, 12, 1, 23, 0, 0>>, <<2024, 12, 2, 1, 0, 0>>, <<2024, 12, 3, 1, 0, 0>>,
     <<2020, 12, 21, 10, 0, 0>>, <<2020, 12, 28, 10, 0, 0>>, <<2021, 1, 4, 10, 0, 0>>,
     <<2024, 12, 16, 10, 0, 0>>, <<2024, 12, 23, 10, 0, 0>>, <<2024, 12, 30, 10, 0, 0>>,
     <<2024, 12, 2>>}

NextStreak ==
    \/ \E p \in {"daily", "weekly"} : Store(StreakName, <<"d">>, p)
    \/ /\ Len(tracker) < MaxEvents
       /\ \E e \in StreakStampPool : IncrementTracker(StreakName, e, e)
    \/ CalculateStreakCall(StreakName)

SpecStreak == Init /\ [][NextStreak]_vars

-----------------------------------------------------------------------------
(* The store under every DBHabit operation, renames included *)

\* Names given to DBHabit(name, ...): they normalise to "a" and "b".
CrudNamePool == {<<"A">>, <<" ", "b">>}

CrudPeriodicityPool == {"daily", "monthly"}

\* (new_name, new_description, new_periodicity) of update: a new name in upper
\* case alone, the name of the other habit with the two other fields, and the
\* two other fields without a name.
UpdatePool ==
    {<<<<"A">>, <<>>, "">>, <<<<"b">>, <<"e">>, "weekly">>, <<<<>>, <<"e">>, "weekly">>}

\* date of add_event: a date, and a text that is not "YYYY-MM-DD".
CrudDatePool == {<<2024, 12, 31>>, <<2024, 12, 31, 7, 0, 0>>}

\* The clock's text; add_event is called with a date in this specification.
CrudNow == <<2024, 12, 31, 7, 0, 0>>

\* event_date of increment_tracker.
CrudStampPool == {<<2025, 1, 1, 7, 0, 0>>}

NextCrud ==
    \/ \E n \in CrudNamePool, p \in CrudPeriodicityPool : Store(n, <<"d">>, p)
    \/ \E n \in CrudNamePool, u \in UpdatePool : Update(n, u[1], u[2], u[3])
    \/ /\ Len(tracker) < MaxCrudEvents
       /\ \E n \in CrudNamePool, date \in CrudDatePool : AddEvent(n, date, CrudNow)
    \/ /\ Len(tracker) < MaxCrudEvents
       /\ \E n \in {<<"a">>, <<"b">>}, e \in CrudStampPool : IncrementTracker(n, e, e)
    \/ \E n \in CrudNamePool : ResetInDb(n)
    \/ \E n \in CrudNamePool : Delete(n)
    \/ DeleteDb

SpecCrud == Init /\ [][NextCrud]_vars

-----------------------------------------------------------------------------
(* Check-offs of one habit made through add_event around a year end *)

EventName == <<"a">>

\* date of add_event: None; 2023-12-31 (a Sunday) and 2024-01-01; Monday
\* 2024-12-30; 2024-12-31 and 2025-01-01, which are days of one ISO week; Sunday
\* 2025-01-05; and a text that names no day of the calendar.
EventDatePool ==
    {<<>>, <<2023, 12, 31>>, <<2024, 1, 1>>, <<2024, 12, 30>>, <<2024, 12, 31>>,
     <<2025, 1, 1>>, <<2025, 1, 5>>, <<2025, 2, 30>>}

\* The clock's text when add_event is called without a date.
EventNow == <<2025, 1, 1, 9, 30, 0>>

\* new_name of update: the name in upper case, and back.
EventNewNamePool == {<<"A">>, <<"a">>}

NextEvent ==
    \/ \E p \in {"daily", "weekly"} : Store(EventName, <<"d">>, p)
    \/ /\ Len(tracker) < MaxEvents
       /\ \E date \in EventDatePool : AddEvent(EventName, date, EventNow)
    \/ \E new_name \in EventNewNamePool : Update(EventName, new_name, <<>>, "")
    \/ ResetInDb(EventName)
    \/ Delete(EventName)

SpecEvent == Init /\ [][NextEvent]_vars

-----------------------------------------------------------------------------
(* One habit with several check-offs in one period *)

\* Sunday to Tuesday of 2024-12-01..03, the Mondays of ISO weeks 2024-W50 and
\* W51 and the Wednesday of W50, all at 07:00:00.
RepeatStampPool ==
    {<<2024, 12, 1, 7, 0, 0>>, <<2024, 12, 2, 7, 0, 0>>, <<2024, 12, 3, 7, 0, 0>>,
     <<2024, 12, 9, 7, 0, 0>>, <<2024, 12, 11, 7, 0, 0>>, <<2024, 12, 16, 7, 0, 0>>}

NextRepeat ==
    \/ \E p \in {"daily", "weekly"} : Store(StreakName, <<"d">>, p)
    \/ /\ Len(tracker) < MaxRepeatEvents
       /\ \E e \in RepeatStampPool : IncrementTracker(StreakName, e, e)
    \/ CalculateStreakCall(StreakName)

SpecRepeat == Init /\ [][NextRepeat]_vars

-----------------------------------------------------------------------------
(* The dummy data *)

PopulationNames == {Workout, CarWash, Meditation, GroceryShop, Studying}

NextPopulate ==
    \/ /\ Len(tracker) < MaxPopulatedEvents
       /\ Populate
    \/ /\ Len(tracker) < MaxPopulatedEvents
       /\ \E n \in PopulationNames \cup {<<"x">>} : CalculateStreakCall(n)
    \/ /\ Len(tracker) < MaxPopulatedEvents
       /\ \E n \in {Workout, CarWash, GroceryShop} : ResetInDb(n)
    \/ /\ Len(tracker) < MaxPopulatedEvents
       /\ \E n \in {Meditation} : Delete(n)
    \/ DeleteDb

SpecPopulate == Init /\ [][NextPopulate]_vars

-----------------------------------------------------------------------------
(* Vocabulary of the properties *)

SetMin(S) == CHOOSE x \in S : \A y \in S : x <= y

SetMax(S) == CHOOSE x \in S : \A y \in S : x >= y

\* The last call was calculate_streak(name) for a stored habit of that exact name.
StreakCalled == op.name = "calculate_streak" /\ op.habit_name \in HabitNames(habit)

\* The periodicity stored for the habit the last call named.
CalledPeriodicity ==
    LET i == CHOOSE k \in 1..Len(habit) : habit[k].name = op.habit_name
    IN  habit[i].periodicity

\* The check-off texts of the habit the last call named, as recorded.
CalledEvents ==
    LET rows == GetHabitData(tracker, op.habit_name)
    IN  [i \in 1..Len(rows) |-> rows[i].check_of_date]

AllFull(texts) == \A i \in 1..Len(texts) : Len(texts[i]) = 6

TimeOfDay(t) == <<t[4], t[5], t[6]>>

\* The calendar days (as day numbers) on which the texts fall.
DaysOf(texts) == {ToOrdinal(texts[i][1], texts[i][2], texts[i][3]) : i \in 1..Len(texts)}

\* One check-off per calendar day, all at the same time of day.
OnePerDaySameTime(texts) ==
    /\ texts # <<>>
    /\ AllFull(texts)
    /\ \A i, j \in 1..Len(texts) : TimeOfDay(texts[i]) = TimeOfDay(texts[j])
    /\ Cardinality(DaysOf(texts)) = Len(texts)

\* The length of the longest stretch s[i..j] in which every neighbouring pair
\* satisfies Adjacent(previous, current); 0 for the empty sequence.
LongestRun(s, Adjacent(_, _)) ==
    LET IsRun(i, j) == \A k \in i..(j - 1) : Adjacent(s[k], s[k + 1])
        lengths == {j - i + 1 : <<i, j>> \in {ij \in (1..Len(s)) \X (1..Len(s)) :
                                               ij[1] <= ij[2] /\ IsRun(ij[1], ij[2])}}
    IN  IF s = <<>> THEN 0 ELSE SetMax(lengths)

-----------------------------------------------------------------------------
(* C1 *)

\* C1: for a daily habit whose check-offs are one per day at the same time of
\* day on n consecutive calendar days, calculate_streak returns n; with one day
\* of the middle missing it returns the larger of the two run lengths.
C1_ConsecutiveDays ==
    (StreakCalled /\ CalledPeriodicity = "daily" /\ OnePerDaySameTime(CalledEvents)) =>
        LET days == DaysOf(CalledEvents)
            lo   == SetMin(days)
            hi   == SetMax(days)
        IN  /\ days = lo..hi => result = IntResult(hi - lo + 1)
            /\ \A g \in (lo + 1)..(hi - 1) :
                   days = (lo..hi) \ {g} => result = IntResult(Max(g - lo, hi - g))

\* Four consecutive days with the second one missing: runs of 1 and 2, the
\* longer one last.
C1_Witness ==
    /\ StreakCalled /\ CalledPeriodicity = "daily" /\ OnePerDaySameTime(CalledEvents)
    /\ LET days == DaysOf(CalledEvents)
       IN  days = {SetMin(days), SetMin(days) + 2, SetMin(days) + 3}
    /\ result = IntResult(2)

-----------------------------------------------------------------------------
(* C2 *)

\* current falls on the calendar day after previous, whatever the times of day.
NextCalendarDay(previous, current) ==
    ToOrdinal(current[1], current[2], current[3])
        = ToOrdinal(previous[1], previous[2], previous[3]) + 1

\* C2: for a daily habit the run is extended at a pair of consecutive check-offs
\* exactly when current is on the calendar day after previous, so the streak is
\* the longest stretch of check-offs on successive calendar days.
C2_CalendarDayAdjacency ==
    (StreakCalled /\ CalledPeriodicity = "daily"
        /\ CalledEvents # <<>> /\ AllFull(CalledEvents)) =>
        result = IntResult(LongestRun(SortAsc(CalledEvents), NextCalendarDay))

-----------------------------------------------------------------------------
(* C3 *)

\* The Monday (as a day number) of the week a text falls in.
MondayOf(t) ==
    LET day == ToOrdinal(t[1], t[2], t[3])
    IN  day - ((day + 6) % 7)

MondaysOf(texts) == {MondayOf(texts[i]) : i \in 1..Len(texts)}

\* C3: for a weekly habit with exactly one check-off in each of n consecutive
\* ISO weeks, whatever the starting week, calculate_streak returns n.
C3_ConsecutiveWeeks ==
    (StreakCalled /\ CalledPeriodicity = "weekly"
        /\ CalledEvents # <<>> /\ AllFull(CalledEvents)
        /\ Cardinality(MondaysOf(CalledEvents)) = Len(CalledEvents)
        /\ LET mondays == MondaysOf(CalledEvents)
           IN  mondays = {SetMin(mondays) + 7 * k : k \in 0..(Len(CalledEvents) - 1)}) =>
        result = IntResult(Len(CalledEvents))

-----------------------------------------------------------------------------
(* C4 *)

\* The rule of the claim on ISO <<year, week>> pairs.
WeekSuccessor(previous, current) ==
    LET p == IsoCalendar(previous)
        c == IsoCalendar(current)
    IN  \/ c[1] = p[1] /\ c[2] = p[2] + 1
        \/ c[1] = p[1] + 1 /\ p[2] = 52 /\ c[2] = 1

\* C4: for a weekly habit the run is extended at a pair exactly when the ISO
\* year is equal and the week is the previous week plus one, or the ISO year is
\* the next one, the previous week 52 and the current week 1; every other pair
\* closes the run and starts a new one of length 1.  So the streak is the
\* longest stretch of check-offs linked by that rule.
C4_WeeklyRule ==
    (StreakCalled /\ CalledPeriodicity = "weekly"
        /\ CalledEvents # <<>> /\ AllFull(CalledEvents)) =>
        result = IntResult(LongestRun(SortAsc(CalledEvents), WeekSuccessor))

\* Check-offs in 2024-W51, 2024-W52 and 2025-W01: the year-end pair extends.
C4_Witness ==
    /\ StreakCalled /\ CalledPeriodicity = "weekly"
    /\ {CalledEvents[i] : i \in 1..Len(CalledEvents)}
           = {<<2024, 12, 16, 10, 0, 0>>, <<2024, 12, 23, 10, 0, 0>>, <<2024, 12, 30, 10, 0, 0>>}
    /\ result = IntResult(3)

-----------------------------------------------------------------------------
(* C6 *)

\* C6: an existing daily or weekly habit with k >= 1 check-offs has an integer
\* streak s with 1 <= s <= k.
C6_StreakBetweenOneAndCount ==
    (StreakCalled /\ CalledPeriodicity \in {"daily", "weekly"} /\ CalledEvents # <<>>) =>
        /\ result.type = "int"
        /\ 1 <= result.int
        /\ result.int <= Len(CalledEvents)

-----------------------------------------------------------------------------
(* C5 *)

\* C5: for an existing habit with no check-off events calculate_streak returns
\* the integer 0, whatever its periodicity.
C5_NoCheckOffsZero ==
    (StreakCalled /\ CalledEvents = <<>>) => result = IntResult(0)

\* A weekly habit without check-offs while the tracker holds those of another.
C5_Witness ==
    /\ StreakCalled /\ CalledEvents = <<>>
    /\ CalledPeriodicity = "weekly"
    /\ tracker # <<>>
    /\ result = IntResult(0)

-----------------------------------------------------------------------------
(* C7 *)

\* No stored habit has this name, letter case ignored.
MatchesNoHabit(name) == \A i \in 1..Len(habit) : Lower(habit[i].name) # Lower(name)

\* C7: calculate_streak with a name that matches no stored habit returns the
\* not-found message, never an integer; so an integer means the habit exists.
C7_NotFoundIsDistinct ==
    op.name = "calculate_streak" =>
        /\ MatchesNoHabit(op.habit_name) =>
               result = StrResult("Habit '{}' not found.", <<op.habit_name>>)
        /\ result.type = "int" => ~MatchesNoHabit(op.habit_name)

\* The padded name " b" is looked up while habit "b" is stored with check-offs.
C7_Witness ==
    /\ op = Call("calculate_streak", <<" ", "b">>)
    /\ <<"b">> \in HabitNames(habit)
    /\ GetHabitData(tracker, <<"b">>) # <<>>
    /\ result = StrResult("Habit '{}' not found.", <<<<" ", "b">>>>)

-----------------------------------------------------------------------------
(* C8 *)

\* C8: when the stored periodicity is neither "daily" nor "weekly",
\* calculate_streak does not return an integer streak.  Stated for a habit that
\* has check-offs, where a streak would have to be computed (C5 settles the
\* habit without check-offs).
C8_UnknownPeriodicityRefused ==
    (StreakCalled /\ CalledPeriodicity \notin {"daily", "weekly"} /\ CalledEvents # <<>>) =>
        result.type # "int"

-----------------------------------------------------------------------------
(* C9 *)

ListedPairs == {result.list[i] : i \in 1..Len(result.list)}

\* C9: longest_streak_across returns exactly the pairs (h, calculate_streak(h))
\* of the stored habits whose streak is the maximum over all stored habits, each
\* once, and the empty list exactly when there are no habits.
C9_AcrossIsArgMax ==
    op.name = "longest_streak_across" =>
        LET names     == HabitNames(habit)
            streak(h) == CalculateStreak(habit, tracker, h)
        IN  /\ result.type = "list"
            /\ \A h \in names : streak(h).type = "int"
            /\ ListedPairs =
                   {<<h, streak(h).int>> : h \in {x \in names :
                        \A y \in names : streak(y).int <= streak(x).int}}
            /\ Len(result.list) = Cardinality(ListedPairs)
            /\ (result.list = <<>>) <=> (names = {})

-----------------------------------------------------------------------------
(* C10 *)

\* C10: with at least one habit and no check-off at all, longest_streak_across
\* returns every stored habit, each once, paired with streak 0.
C10_AllTiedAtZero ==
    (op.name = "longest_streak_across" /\ habit # <<>> /\ tracker = <<>>) =>
        /\ result.type = "list"
        /\ ListedPairs = {<<h, 0>> : h \in HabitNames(habit)}
        /\ Len(result.list) = Len(habit)

\* Two habits, no check-offs.
C10_Witness ==
    /\ op.name = "longest_streak_across"
    /\ Len(habit) = 2
    /\ tracker = <<>>
    /\ Len(result.list) = 2

-----------------------------------------------------------------------------
(* C11 *)

QueryNames == {"calculate_streak", "longest_streak_across"}

\* Two return values are the same value; the list of longest_streak_across is
\* compared as the collection of its pairs, the rows of its SELECT without
\* ORDER BY coming in the order the query planner picks.
SameReturn(r1, r2) ==
    /\ r1.type = r2.type
    /\ r1.int = r2.int
    /\ r1.msg = r2.msg
    /\ r1.arg = r2.arg
    /\ Len(r1.list) = Len(r2.list)
    /\ {r1.list[i] : i \in 1..Len(r1.list)} = {r2.list[i] : i \in 1..Len(r2.list)}

\* C11: calculate_streak and longest_streak_across leave the habit rows and the
\* check-off events as they were, and the same call made again on the unchanged
\* store returns the same value.
C11_QueriesReadOnly ==
    [][op'.name \in QueryNames =>
           /\ habit' = habit
           /\ tracker' = tracker
           /\ (op = op' => SameReturn(result, result'))]_vars

\* A streak of two was computed and the check-offs are still there.
C11_Witness ==
    /\ op.name = "calculate_streak"
    /\ result.type = "int"
    /\ result.int = 2
    /\ Len(GetHabitData(tracker, op.habit_name)) >= 2

-----------------------------------------------------------------------------
(* C12 *)

\* Every check-off event names a stored habit, by the name as it is stored.
EventsNameHabits ==
    \A i \in 1..Len(tracker) : \E j \in 1..Len(habit) : tracker[i].habit_name = habit[j].name

\* C12: through store, add_event, increment_tracker, update, reset_in_db, delete
\* and delete_db every check-off event's habit_name is the name of a stored
\* habit row, and increment_tracker and add_event add nothing for a name that
\* matches no habit.
C12_ReferentialIntegrity ==
    /\ []EventsNameHabits
    /\ [][(/\ op'.name \in {"increment_tracker", "add_event"}
           /\ \A j \in 1..Len(habit) : Lower(habit[j].name) # Lower(op'.habit_name))
              => (tracker' = tracker /\ habit' = habit)]_vars

\* A habit with check-offs was renamed, and its check-offs carry the new name.
C12_Witness ==
    /\ op.name = "update"
    /\ result = StrResult("Habit '{}' has been updated successfully.", <<<<"A">>>>)
    /\ \E i \in 1..Len(tracker) : tracker[i].habit_name = <<"A">>
    /\ \E j \in 1..Len(habit) : habit[j].name = <<"A">>

-----------------------------------------------------------------------------
(* C13 *)

\* C13: through store, update with any new_name, and delete, the stored habit
\* names are trimmed and lower-case, and no two habit rows have names that are
\* equal when letter case is ignored.
C13_NamesNormalisedAndUnique ==
    /\ \A i \in 1..Len(habit) : habit[i].name = Lower(Strip(habit[i].name))
    /\ \A i, j \in 1..Len(habit) :
           Lower(habit[i].name) = Lower(habit[j].name) => i = j

-----------------------------------------------------------------------------
(* C14 *)

\* C14: through store and update every stored habit's periodicity is "daily" or
\* "weekly".
C14_PeriodicityDailyOrWeekly ==
    \A i \in 1..Len(habit) : habit[i].periodicity \in {"daily", "weekly"}

-----------------------------------------------------------------------------
(* C15 *)

\* C15: store for a habit whose normalised name is already in the store returns
\* "Habit '<name>' already exists. It was not added." and leaves the habit and
\* tracker tables as they were.
C15_DuplicateStoreRefused ==
    [][(/\ op'.name = "store"
        /\ \E j \in 1..Len(habit) : Lower(habit[j].name) = op'.habit_name)
           => /\ result' = StrResult("Habit '{}' already exists. It was not added.",
                                     <<op'.habit_name>>)
              /\ habit' = habit
              /\ tracker' = tracker]_vars

\* A store was refused for a name that is stored and has check-offs.
C15_Witness ==
    /\ op.name = "store"
    /\ result = StrResult("Habit '{}' already exists. It was not added.", <<op.habit_name>>)
    /\ \E j \in 1..Len(habit) : habit[j].name = op.habit_name
    /\ \E i \in 1..Len(tracker) : tracker[i].habit_name = op.habit_name

-----------------------------------------------------------------------------
(* C16 *)

\* The name matches a stored habit, letter case ignored, and every habit it
\* matches has this periodicity.
IsHabitWith(name, periodicity) ==
    /\ \E j \in 1..Len(habit) : Lower(habit[j].name) = Lower(name)
    /\ \A j \in 1..Len(habit) :
           Lower(habit[j].name) = Lower(name) => habit[j].periodicity = periodicity

\* The positions of the check-off events of the habit a name matches.
EventsOf(name) == {i \in 1..Len(tracker) : Lower(tracker[i].habit_name) = Lower(name)}

\* The calendar date of a check_of_date text.
DateOf(text) == <<text[1], text[2], text[3]>>

\* An add_event call was given no date or a date of the calendar, and the text
\* it records.
HasDate(call) == call.date = <<>> \/ ParsesDate(call.date)

GivenText(call) == IF call.date = <<>> THEN call.now ELSE call.date \o <<0, 0, 0>>

\* C16: for a daily habit add_event with a date on which the habit already has
\* a check-off returns the "was already checked-off on <date>" message and
\* leaves the tracker unchanged; so, check-offs being made by add_event alone,
\* a daily habit has at most one check-off per calendar date.
C16_DailyOncePerDate ==
    /\ [][(/\ op'.name = "add_event"
           /\ IsHabitWith(op'.habit_name, "daily")
           /\ HasDate(op')
           /\ \E i \in EventsOf(op'.habit_name) :
                  DateOf(tracker[i].check_of_date) = DateOf(GivenText(op')))
              => /\ result' = StrResult("Habit '{}' was already checked-off on {}.",
                                        <<op'.habit_name, DateOf(GivenText(op'))>>)
                 /\ tracker' = tracker]_vars
    /\ [](\A name \in HabitNames(habit) :
              IsHabitWith(name, "daily") =>
                  \A i, j \in EventsOf(name) :
                      DateOf(tracker[i].check_of_date) = DateOf(tracker[j].check_of_date)
                          => i = j)

-----------------------------------------------------------------------------
(* C17 *)

\* The ISO (year, week) of a check_of_date text.
IsoWeekOf(text) == IsoCalendar(DateOf(text))

\* C17: for a weekly habit add_event with a date in an ISO week that already
\* holds a check-off of the habit is rejected with the "already checked-off in
\* this week" message; so, check-offs being made by add_event alone, a weekly
\* habit has at most one check-off per ISO (year, week).
C17_WeeklyOncePerIsoWeek ==
    /\ [][(/\ op'.name = "add_event"
           /\ IsHabitWith(op'.habit_name, "weekly")
           /\ HasDate(op')
           /\ \E i \in EventsOf(op'.habit_name) :
                  IsoWeekOf(tracker[i].check_of_date) = IsoWeekOf(GivenText(op')))
              => /\ result' = StrResult("Habit '{}' was already checked-off in this week.",
                                        <<op'.habit_name>>)
                 /\ tracker' = tracker]_vars
    /\ [](\A name \in HabitNames(habit) :
              IsHabitWith(name, "weekly") =>
                  \A i, j \in EventsOf(name) :
                      IsoWeekOf(tracker[i].check_of_date) = IsoWeekOf(tracker[j].check_of_date)
                          => i = j)

-----------------------------------------------------------------------------
(* C18 *)

\* The sequence has one more element at its end than the other sequence.
ExtendsByOne(longer, shorter) ==
    Len(longer) = Len(shorter) + 1 /\ SubSeq(longer, 1, Len(shorter)) = shorter

-----------------------------------------------------------------------------
(* C19 *)

\* The rows of a table, in order, that belong to habits other than the one the
\* name matches.
OtherHabitRows(h_tbl, name) ==
    LET Other(row) == Lower(row.name) # Lower(name)
    IN  SelectSeq(h_tbl, Other)

OtherTrackerRows(t_tbl, name) ==
    LET Other(row) == Lower(row.habit_name) # Lower(name)
    IN  SelectSeq(t_tbl, Other)

\* C19: when reset_in_db reports "All progress for habit '<name>' has been
\* reset.", the habit has no check-off event left and calculate_streak for it
\* is 0, its habit row is as it was, and the habit rows and check-off events of
\* every other habit are as they were.
C19_ResetClearsOneHabit ==
    [][(/\ op'.name = "reset_in_db"
        /\ result' = StrResult("All progress for habit '{}' has been reset.",
                               <<op'.habit_name>>))
           => /\ \A i \in 1..Len(tracker') :
                     Lower(tracker'[i].habit_name) # Lower(op'.habit_name)
              /\ CalculateStreak(habit', tracker', op'.habit_name) = IntResult(0)
              /\ habit' = habit
              /\ OtherTrackerRows(tracker', op'.habit_name)
                     = OtherTrackerRows(tracker, op'.habit_name)]_vars

-----------------------------------------------------------------------------
(* C20 *)

\* C20: whenever delete reports "The habit '<name>' has been deleted.", no
\* habit row matches the name afterwards (proof_habit is False and
\* calculate_streak returns the not-found message), no check-off event refers
\* to it, and all other habits and their check-offs are as they were.
C20_DeleteRemovesOneHabit ==
    [][(/\ op'.name = "delete"
        /\ result' = StrResult("The habit '{}' has been deleted.", <<op'.habit_name>>))
           => /\ ~ProofHabit(habit', op'.habit_name)
              /\ CalculateStreak(habit', tracker', op'.habit_name)
                     = StrResult("Habit '{}' not found.", <<op'.habit_name>>)
              /\ \A i \in 1..Len(tracker') :
                     Lower(tracker'[i].habit_name) # Lower(op'.habit_name)
              /\ OtherHabitRows(habit', op'.habit_name)
                     = OtherHabitRows(habit, op'.habit_name)
              /\ OtherTrackerRows(tracker', op'.habit_name)
                     = OtherTrackerRows(tracker, op'.habit_name)]_vars

-----------------------------------------------------------------------------
(* C21 *)

\* C21: update of an existing habit with a new name, a description and a
\* periodicity returns "Habit '<new_name>' has been updated successfully.";
\* afterwards the habit is stored under the new name with the new description
\* and periodicity, no habit row is left under the old name, and the check-off
\* events of the habit carry the new name, their number and timestamps as they
\* were.  Every other row is as it was.
C21_UpdateAppliesAllFields ==
    [][(/\ op'.name = "update"
        /\ \E j \in 1..Len(habit) : Lower(habit[j].name) = Lower(op'.habit_name)
        /\ op'.new_name # <<>>
        /\ op'.new_description # <<>>
        /\ op'.new_periodicity # ""
        /\ \A j \in 1..Len(habit) : habit[j].name # op'.new_name)
           => /\ result' = StrResult("Habit '{}' has been updated successfully.",
                                     <<op'.new_name>>)
              /\ \E j \in 1..Len(habit) :
                     /\ Lower(habit[j].name) = Lower(op'.habit_name)
                     /\ habit' = [habit EXCEPT ![j] =
                                     [name        |-> op'.new_name,
                                      description |-> op'.new_description,
                                      periodicity |-> op'.new_periodicity]]
                     /\ \A k \in 1..Len(habit') : habit'[k].name # habit[j].name
                     /\ Len(tracker') = Len(tracker)
                     /\ \A i \in 1..Len(tracker) :
                            /\ tracker'[i].check_of_date = tracker[i].check_of_date
                            /\ tracker'[i].habit_name =
                                   IF tracker[i].habit_name = habit[j].name
                                   THEN op'.new_name ELSE tracker[i].habit_name]_vars

\* A habit with a check-off was renamed to "b" with a new description and
\* periodicity.
C21_Witness ==
    /\ op.name = "update"
    /\ op.new_name = <<"b">>
    /\ op.habit_name # <<"b">>
    /\ result = StrResult("Habit '{}' has been updated successfully.", <<<<"b">>>>)
    /\ \E j \in 1..Len(habit) :
           habit[j] = [name |-> <<"b">>, description |-> <<"e">>, periodicity |-> "weekly"]
    /\ \E i \in 1..Len(tracker) : tracker[i].habit_name = <<"b">>

-----------------------------------------------------------------------------
(* C22 *)

\* C22: populate_dummy_data called a second time on the store it has populated
\* leaves the habit table with the 5 dummy habits and adds no check-off event:
\* the store is the store after the first call.
C22_RepopulationAddsNothing ==
    [][(op.name = "populate_dummy_data" /\ op'.name = "populate_dummy_data")
           => /\ Len(habit') = 5
              /\ habit' = habit
              /\ tracker' = tracker]_vars

-----------------------------------------------------------------------------
(* C23 *)

\* The store is the empty store populated once.
PopulatedOnce ==
    /\ habit = PopulateDummyData(<<>>, <<>>).habit
    /\ tracker = PopulateDummyData(<<>>, <<>>).tracker

\* The streaks of the dummy habits.
DummyStreak(name) ==
    CASE name = Workout     -> 15
      [] name = Meditation  -> 11
      [] name = Studying    -> 14
      [] name = CarWash     -> 2
      [] name = GroceryShop -> 3

\* C23: on the empty store populated once calculate_streak returns 15 for
\* "workout", 11 for "meditation", 14 for "studying", 2 for "car wash" and 3
\* for "grocery shop".
C23_DummyStreaks ==
    (op.name = "calculate_streak" /\ op.habit_name \in PopulationNames /\ PopulatedOnce)
        => result = IntResult(DummyStreak(op.habit_name))

\* The streak of "meditation", whose longest run is the last one, was computed
\* on the store populated once.
C23_Witness ==
    /\ op = Call("calculate_streak", Meditation)
    /\ PopulatedOnce
    /\ Len(tracker) = 88
    /\ result = IntResult(11)

-----------------------------------------------------------------------------
(* C24 *)

\* The periods that hold at least one of the check-offs, as day numbers: the
\* calendar days for a daily habit, the Mondays of the ISO weeks for a weekly one.
PeriodsOf(texts, periodicity) ==
    IF periodicity = "daily" THEN DaysOf(texts) ELSE MondaysOf(texts)

PeriodLength(periodicity) == IF periodicity = "daily" THEN 1 ELSE 7

\* The number of periods in the longest run of consecutive periods of a set.
LongestPeriodRun(periods, step) ==
    SetMax({n \in 0..Cardinality(periods) :
               n = 0 \/ \E first \in periods :
                            \A k \in 0..(n - 1) : first + step * k \in periods})

\* C24: the streak is the number of periods in the longest run of consecutive
\* periods (calendar days for a daily habit, ISO weeks for a weekly one) that
\* each hold at least one check-off of the habit, also when a period holds
\* several check-offs.
C24_LongestRunOfPeriods ==
    (StreakCalled /\ CalledPeriodicity \in {"daily", "weekly"}
        /\ CalledEvents # <<>> /\ AllFull(CalledEvents)) =>
        result = IntResult(LongestPeriodRun(PeriodsOf(CalledEvents, CalledPeriodicity),
                                            PeriodLength(CalledPeriodicity)))

-----------------------------------------------------------------------------
(* C25 *)

\* current falls in the ISO week after the week of previous.
NextIsoWeek(previous, current) == MondayOf(current) = MondayOf(previous) + 7

\* C25: check-offs of one period are not collapsed: a pair of neighbouring
\* check-offs in the same calendar day (daily) or the same ISO week (weekly)
\* closes the run and starts a new one of length 1, so the streak is the longest
\* stretch of neighbouring check-offs that are each one period after the one
\* before; daily check-offs on days 1, 2, 2, 3 give 2.
C25_SamePeriodPairClosesRun ==
    (StreakCalled /\ CalledEvents # <<>> /\ AllFull(CalledEvents)) =>
        /\ CalledPeriodicity = "daily" =>
               result = IntResult(LongestRun(SortAsc(CalledEvents), NextCalendarDay))
        /\ CalledPeriodicity = "weekly" =>
               result = IntResult(LongestRun(SortAsc(CalledEvents), NextIsoWeek))

\* Daily check-offs on days 1, 2, 2, 3.
C25_Witness ==
    /\ StreakCalled /\ CalledPeriodicity = "daily"
    /\ SortAsc(CalledEvents) = <<<<2024, 12, 1, 7, 0, 0>>, <<2024, 12, 2, 7, 0, 0>>,
                                 <<2024, 12, 2, 7, 0, 0>>, <<2024, 12, 3, 7, 0, 0>>>>
    /\ result = IntResult(2)

-----------------------------------------------------------------------------
(* C26 *)

\* C26: for a weekly habit, whenever calculate_streak returns k, the habit has
\* check-offs in k consecutive ISO weeks with no week skipped between them, also
\* around ISO years of 53 weeks.
C26_WeeklyStreakHasConsecutiveWeeks ==
    (StreakCalled /\ CalledPeriodicity = "weekly"
        /\ AllFull(CalledEvents) /\ result.type = "int" /\ result.int >= 1) =>
        \E first \in MondaysOf(CalledEvents) :
            \A k \in 0..(result.int - 1) : first + 7 * k \in MondaysOf(CalledEvents)

-----------------------------------------------------------------------------
(* C27 *)

\* C27: calculate_streak never raises, whatever check-off texts increment_tracker
\* has recorded for the habit, date-only texts such as "2024-12-15" included.
C27_StreakNeverRaises ==
    op.name = "calculate_streak" => result.type # "raise"

-----------------------------------------------------------------------------
(* C28 *)

\* C28: update of an existing habit with a new_name that is already the name of
\* a different stored habit returns a failure message instead of raising, and
\* leaves the habit table and the tracker table as they were.
C28_UpdateToTakenNameRefused ==
    [][(/\ op'.name = "update"
        /\ \E j \in 1..Len(habit) : Lower(habit[j].name) = Lower(op'.habit_name)
        /\ \E k \in 1..Len(habit) :
               /\ habit[k].name = op'.new_name
               /\ Lower(habit[k].name) # Lower(op'.habit_name))
           => /\ result'.type = "str"
              /\ result'.msg # "Habit '{}' has been updated successfully."
              /\ habit' = habit
              /\ tracker' = tracker]_vars

-----------------------------------------------------------------------------
(* C29 *)

\* C29: the habit lookup of calculate_streak ignores letter case: for a stored
\* habit, every spelling of its name that differs from it only in case gets the
\* result the stored spelling gets.
C29_StreakLookupIgnoresCase ==
    StreakCalled =>
        \A spelling \in NamePool :
            Lower(spelling) = Lower(op.habit_name) =>
                CalculateStreak(habit, tracker, spelling) = result

-----------------------------------------------------------------------------
(* C30 *)

\* The tracker table with its rows listed in the order `order` of their indices.
Reordered(t_tbl, order) == [i \in 1..Len(t_tbl) |-> t_tbl[order[i]]]

\* C30: calculate_streak does not depend on the order in which the check-offs
\* were recorded: with full timestamps, the same rows inserted in any other
\* order, the ascending chronological one among them, give the result returned.
C30_InsertionOrderIrrelevant ==
    (StreakCalled /\ AllFull(CalledEvents)) =>
        \A order \in Perms(1..Len(tracker)) :
            CalculateStreak(habit, Reordered(tracker, order), op.habit_name) = result

\* Two consecutive days recorded the later one first: the streak is 2.
C30_Witness ==
    /\ StreakCalled /\ CalledPeriodicity = "daily"
    /\ CalledEvents = <<<<2024, 12, 2, 7, 0, 0>>, <<2024, 12, 1, 7, 0, 0>>>>
    /\ result = IntResult(2)

====
